---- MODULE Spec2Model ----
(***************************************************************************)
(* A model of the vector collection store of localQA                       *)
(* (src/vector_store.py), with the callers in src/app.py and the chunk     *)
(* producer of src/embedder.py.                                            *)
(*                                                                         *)
(* One collection directory is modelled, with its three files, and the     *)
(* VectorStore objects ("handles") that processes or sessions hold on it.  *)
(* A method that writes files is split at its file operations, which are   *)
(* the points where another handle's file operation can fall in between:   *)
(* the code takes no lock.                                                 *)
(*                                                                         *)
(* A second part models the store root ./index with several collection     *)
(* directories, the encoding of collection names into directory names,     *)
(* and the handlers of src/app.py that list, create, fill and delete       *)
(* collections (variables store and call); each of these handlers runs     *)
(* alone.                                                                  *)
(*                                                                         *)
(* An embedding is modelled sparsely: d is its length and v its first      *)
(* component, all other components being 0.  Positions are 0-based as in   *)
(* the code; position i is element i+1 of a TLA+ sequence.                 *)
(***************************************************************************)
EXTENDS Integers, Sequences, FiniteSets, TLC

VARIABLES
    index_dir,       \* does the collection directory exist
    name_file,       \* name.txt
    index_file,      \* index.faiss
    metadata_file,   \* metadata.pkl
    pc,              \* per handle: position in the running method
    index,           \* per handle: self.index (the vectors, in order)
    metadata_list,   \* per handle: self.metadata_list
    saves,           \* per handle: _save_index calls the running method still makes
    outcome,         \* per handle: the last method called and how it ended
    before,          \* per handle: self.index / self.metadata_list when the method was called
    saw,             \* per handle: what line 37 saw when the object was constructed
    found,           \* per handle: what the last search computed
    faults,          \* I/O failures injected so far
    store,           \* the directories under the working directory, with their files
    call             \* the last call on the store of several collections

vars == <<index_dir, name_file, index_file, metadata_file, pc, index,
          metadata_list, saves, outcome, before, saw, found, faults, store, call>>

disk == <<index_dir, name_file, index_file, metadata_file>>

\* the store of several collections and the calls made on it
app == <<store, call>>

----------------------------------------------------------------------------
(* Program constants *)

dimension == 1536
CONTEXT_WINDOW == 2
collection_name == "db"

(* Bounds *)

MaxLen == 3        \* vectors one index holds at most
MaxBatch == 2      \* documents in one add_documents call (store specification)
MaxFaults == 1     \* injected I/O failures in one behaviour
MaxChunks == 3     \* chunks of one source file (search specification)
MaxConcLen == 2    \* vectors one index holds at most (concurrent specification)
MaxK == 2          \* n_results of a search
MaxDirs == 2       \* collection directories in ./index that calls may create
MaxStored == 1     \* chunks in one collection (specification of several collections)

Handles == {"h1", "h2"}

----------------------------------------------------------------------------
(* Files *)

Absent == [state |-> "absent", data |-> <<>>]
Unreadable == [state |-> "unreadable", data |-> <<>>]
File(data) == [state |-> "ok", data |-> data]

NoName == [state |-> "absent", data |-> ""]
NameFile(s) == [state |-> "ok", data |-> s]

exists(f) == f.state # "absent"

----------------------------------------------------------------------------
(* Documents *)

Vec(d, v) == [d |-> d, v |-> v]

Range(a, b) == [i \in 1..(IF b > a THEN b - a ELSE 0) |-> a + i - 1]

Max(a, b) == IF a > b THEN a ELSE b
Min(a, b) == IF a < b THEN a ELSE b

\* embedder.py split_text + embed_documents: chunk i of n of one file
chunk(file_name, i, n, e) ==
    [keys |-> {"embedding", "text", "metadata"},
     embedding |-> e,
     text |-> file_name,
     metadata |-> [file_name |-> file_name,
                   chunk_id |-> i,
                   chunk_total |-> n,
                   prev_chunks |-> Range(Max(0, i - CONTEXT_WINDOW), i),
                   next_chunks |-> Range(i + 1, Min(n, i + CONTEXT_WINDOW + 1))]]

process_document(file_name, embs) ==
    [i \in 1..Len(embs) |-> chunk(file_name, i - 1, Len(embs), embs[i])]

\* documents: two well-formed one-chunk files, one whose embedding has the
\* wrong length, one without "text"
docA == chunk("A", 0, 1, Vec(dimension, 0))
docB == chunk("B", 0, 1, Vec(dimension, 1))
docLong == chunk("L", 0, 1, Vec(dimension + 1, 0))
docNoText == [chunk("N", 0, 1, Vec(dimension, 3)) EXCEPT !.keys = {"embedding", "metadata"}]

StorePool == {docA, docLong, docNoText}

SeqsUpTo(S, n) == UNION {[1..m -> S] : m \in 0..n}

StoreBatches == SeqsUpTo(StorePool, MaxBatch)

----------------------------------------------------------------------------
(* Collection names and directories                                        *)
(*                                                                         *)
(* A name, a file content or a path segment is a sequence of characters;   *)
(* a character is a string, "U+00E9" standing for the one character e      *)
(* with acute accent.  Names hold no line breaks.                          *)

\* urllib.parse.quote: the characters it never quotes (of those modelled)
always_safe == {"a", "A", "0", "2", "3", "5", "9", "C", "E", "F", ".", "-", "_", "~"}

\* str.encode('utf-8') of one character that is not always safe, each byte
\* as its two hexadecimal digits
encode(c) ==
    CASE c = " " -> << <<"2", "0">> >>
      [] c = "%" -> << <<"2", "5">> >>
      [] c = "/" -> << <<"2", "F">> >>
      [] c = "U+00E9" -> << <<"C", "3">>, <<"A", "9">> >>

\* '%XX' for every byte
RECURSIVE percent(_)
percent(bytes) ==
    IF bytes = <<>> THEN <<>>
    ELSE <<"%", Head(bytes)[1], Head(bytes)[2]>> \o percent(Tail(bytes))

\* urllib.parse.quote(name, safe='')
RECURSIVE quote(_)
quote(name) ==
    IF name = <<>> THEN <<>>
    ELSE (IF Head(name) \in always_safe
          THEN <<Head(name)>>
          ELSE percent(encode(Head(name)))) \o quote(Tail(name))

hexdig == {"0", "2", "3", "5", "9", "A", "C", "E", "F"}

\* does s start with %XX
escaped(s) == Len(s) >= 3 /\ s[1] = "%" /\ s[2] \in hexdig /\ s[3] \in hexdig

\* the bytes of the run of %XX at the head of s
RECURSIVE escapes(_)
escapes(s) ==
    IF escaped(s) THEN << <<s[2], s[3]>> >> \o escapes(SubSeq(s, 4, Len(s))) ELSE <<>>

\* bytes.decode('utf-8', 'replace') for the bytes modelled
RECURSIVE decode(_)
decode(bytes) ==
    IF bytes = <<>> THEN <<>>
    ELSE IF Len(bytes) >= 2 /\ bytes[1] = <<"C", "3">> /\ bytes[2] = <<"A", "9">>
    THEN <<"U+00E9">> \o decode(SubSeq(bytes, 3, Len(bytes)))
    ELSE (CASE Head(bytes) = <<"2", "0">> -> <<" ">>
            [] Head(bytes) = <<"2", "5">> -> <<"%">>
            [] Head(bytes) = <<"2", "E">> -> <<".">>
            [] Head(bytes) = <<"2", "F">> -> <<"/">>
            [] Head(bytes) \in {<<"C", "3">>, <<"A", "9">>} -> <<"U+FFFD">>)
         \o decode(Tail(bytes))

\* urllib.parse.unquote
RECURSIVE unquote(_)
unquote(s) ==
    IF s = <<>> THEN <<>>
    ELSE IF escaped(s)
    THEN decode(escapes(s)) \o unquote(SubSeq(s, 3 * Len(escapes(s)) + 1, Len(s)))
    ELSE <<Head(s)>> \o unquote(Tail(s))

\* app.py get_original_db_name
get_original_db_name(encoded_name) == unquote(encoded_name)

whitespace == {" ", "\t", "\n"}

\* str.strip()
RECURSIVE strip(_)
strip(s) ==
    IF s = <<>> THEN <<>>
    ELSE IF Head(s) \in whitespace THEN strip(Tail(s))
    ELSE IF s[Len(s)] \in whitespace THEN strip(SubSeq(s, 1, Len(s) - 1))
    ELSE s

\* The directories a collection can live in: a direct child of the store
\* root ./index, the store root itself, or the working directory, which is
\* the parent of the store root.
Child(segment) == [kind |-> "child", segment |-> segment]
Root == [kind |-> "root", segment |-> <<>>]
Parent == [kind |-> "parent", segment |-> <<>>]

\* lines 21-24: Path.cwd() / "index" / safe_name.  pathlib drops an empty
\* and a "." segment; ".." names the parent of ./index
index_dir_of(name) ==
    LET safe_name == quote(name)
    IN  IF safe_name \in {<<>>, <<".">>} THEN Root
        ELSE IF safe_name = <<".", ".">> THEN Parent
        ELSE Child(safe_name)

\* a directory with its three files
Dir(n, i, m) == [name_file |-> n, index_file |-> i, metadata_file |-> m]
EmptyDir == Dir(Absent, Absent, Absent)

\* the name file VectorStore.__init__ leaves, writing it in every case
name_written_always(d, name) == File(name)

\* lines 33-35: the name file VectorStore.__init__ leaves
name_written(d, name) == IF exists(d.name_file) THEN d.name_file ELSE File(name)

----------------------------------------------------------------------------
(* Outcomes *)

NoCall == [op |-> "none", status |-> "none", err |-> ""]
Running(op) == [op |-> op, status |-> "running", err |-> ""]
Ok(op) == [op |-> op, status |-> "ok", err |-> ""]
Raised(op, err) == [op |-> op, status |-> "raised", err |-> err]

NoMemory == [index |-> <<>>, metadata_list |-> <<>>]
NotSeen == [index |-> FALSE, metadata |-> FALSE]
NoSearch == [query |-> Vec(0, 0), n_results |-> 0, indices |-> <<>>, results |-> <<>>]

\* config.py lines 19-20: ./index exists when the program runs, and so does
\* the working directory
InitialStore == (Root :> EmptyDir) @@ (Parent :> EmptyDir)

NoStoreCall == [op |-> "none", name |-> <<>>, status |-> "none", dbs |-> {}]

Init ==
    /\ index_dir = FALSE
    /\ name_file = NoName
    /\ index_file = Absent
    /\ metadata_file = Absent
    /\ pc = [h \in Handles |-> "none"]
    /\ index = [h \in Handles |-> <<>>]
    /\ metadata_list = [h \in Handles |-> <<>>]
    /\ saves = [h \in Handles |-> 0]
    /\ outcome = [h \in Handles |-> NoCall]
    /\ before = [h \in Handles |-> NoMemory]
    /\ saw = [h \in Handles |-> NotSeen]
    /\ found = [h \in Handles |-> NoSearch]
    /\ faults = 0
    /\ store = InitialStore
    /\ call = NoStoreCall

----------------------------------------------------------------------------
(* A method raises: the exception leaves the method; a constructor that    *)
(* raises leaves no object.                                                *)

raise(h, err) ==
    /\ outcome' = [outcome EXCEPT ![h] = Raised(outcome[h].op, err)]
    /\ saves' = [saves EXCEPT ![h] = 0]
    /\ IF outcome[h].op = "init"
       THEN /\ pc' = [pc EXCEPT ![h] = "none"]
            /\ index' = [index EXCEPT ![h] = <<>>]
            /\ metadata_list' = [metadata_list EXCEPT ![h] = <<>>]
       ELSE /\ pc' = [pc EXCEPT ![h] = "ready"]
            /\ UNCHANGED <<index, metadata_list>>

\* VectorStore.__init__
VectorStore_init(h) ==
    /\ pc[h] \in {"none", "ready"}
    /\ index_dir' = TRUE
    /\ name_file' = name_written(Dir(name_file, index_file, metadata_file), collection_name)
    /\ saw' = [saw EXCEPT ![h] = [index |-> exists(index_file),
                                   metadata |-> exists(metadata_file)]]
    /\ before' = [before EXCEPT ![h] = NoMemory]
    /\ found' = [found EXCEPT ![h] = NoSearch]
    /\ outcome' = [outcome EXCEPT ![h] = Running("init")]
    /\ index' = [index EXCEPT ![h] = <<>>]
    /\ metadata_list' = [metadata_list EXCEPT ![h] = <<>>]
    /\ IF exists(index_file) /\ exists(metadata_file)
       THEN /\ pc' = [pc EXCEPT ![h] = "load_index"]
            /\ saves' = [saves EXCEPT ![h] = 0]
       ELSE \* _create_index
            /\ pc' = [pc EXCEPT ![h] = "save_index"]
            /\ saves' = [saves EXCEPT ![h] = 1]
    /\ UNCHANGED <<index_file, metadata_file, faults>>
    /\ UNCHANGED app

\* _load_index, line 53: faiss.read_index
load_read_index(h) ==
    /\ pc[h] = "load_index"
    /\ IF index_file.state = "ok"
       THEN /\ index' = [index EXCEPT ![h] = index_file.data]
            /\ pc' = [pc EXCEPT ![h] = "load_metadata"]
            /\ UNCHANGED <<metadata_list, saves, outcome>>
       ELSE raise(h, "ReadError")
    /\ UNCHANGED <<disk, before, saw, found, faults>>
    /\ UNCHANGED app

\* _load_index, lines 54-55: pickle.load
load_read_metadata(h) ==
    /\ pc[h] = "load_metadata"
    /\ IF metadata_file.state = "ok"
       THEN /\ metadata_list' = [metadata_list EXCEPT ![h] = metadata_file.data]
            /\ pc' = [pc EXCEPT ![h] = "ready"]
            /\ outcome' = [outcome EXCEPT ![h] = Ok("init")]
            /\ UNCHANGED <<index, saves>>
       ELSE raise(h, "ReadError")
    /\ UNCHANGED <<disk, before, saw, found, faults>>
    /\ UNCHANGED app

\* _save_index, line 64: faiss.write_index succeeds
save_write_index(h) ==
    /\ pc[h] = "save_index"
    /\ index_dir
    /\ index_file' = File(index[h])
    /\ pc' = [pc EXCEPT ![h] = "save_metadata"]
    /\ UNCHANGED <<index_dir, name_file, metadata_file, index, metadata_list,
                   saves, outcome, before, saw, found, faults>>
    /\ UNCHANGED app

\* _save_index, line 64: faiss.write_index fails; the file it opened for
\* writing is left as it was or partly written
save_write_index_fails(h) ==
    /\ pc[h] = "save_index"
    /\ \/ /\ ~index_dir
          /\ UNCHANGED <<index_file, faults>>
       \/ /\ index_dir
          /\ faults < MaxFaults
          /\ faults' = faults + 1
          /\ index_file' \in {index_file, Unreadable}
    /\ raise(h, "WriteError")
    /\ UNCHANGED <<index_dir, name_file, metadata_file, before, saw, found>>
    /\ UNCHANGED app

\* _save_index, lines 65-66: open(..., 'wb') and pickle.dump succeed
save_write_metadata(h) ==
    /\ pc[h] = "save_metadata"
    /\ index_dir
    /\ metadata_file' = File(metadata_list[h])
    /\ IF saves[h] > 1
       THEN /\ pc' = [pc EXCEPT ![h] = "save_index"]
            /\ saves' = [saves EXCEPT ![h] = saves[h] - 1]
            /\ UNCHANGED outcome
       ELSE /\ pc' = [pc EXCEPT ![h] = "ready"]
            /\ saves' = [saves EXCEPT ![h] = 0]
            /\ outcome' = [outcome EXCEPT ![h] = Ok(outcome[h].op)]
    /\ UNCHANGED <<index_dir, name_file, index_file, index, metadata_list,
                   before, saw, found, faults>>
    /\ UNCHANGED app

\* _save_index, lines 65-66: open fails (file as it was) or pickle.dump
\* fails after open truncated the file
save_write_metadata_fails(h) ==
    /\ pc[h] = "save_metadata"
    /\ \/ /\ ~index_dir
          /\ UNCHANGED <<metadata_file, faults>>
       \/ /\ index_dir
          /\ faults < MaxFaults
          /\ faults' = faults + 1
          /\ metadata_file' \in {metadata_file, Unreadable}
    /\ raise(h, "WriteError")
    /\ UNCHANGED <<index_dir, name_file, index_file, before, saw, found>>
    /\ UNCHANGED app

----------------------------------------------------------------------------
(* add_documents *)

embeddings_of(documents) == [i \in 1..Len(documents) |-> documents[i].embedding]

\* add_error without the check of the vector length
add_error_unchecked(documents) ==
    IF \E i \in 1..Len(documents) : "embedding" \notin documents[i].keys
    THEN "KeyError"
    ELSE IF Len(documents) = 0
    THEN "ValueError"
    ELSE ""

\* lines 74-75: what np.array(...) and index.add(...) raise before the index
\* is touched; "" when they raise nothing
add_error(documents) ==
    IF \E i \in 1..Len(documents) : "embedding" \notin documents[i].keys
    THEN "KeyError"
    ELSE IF \E i, j \in 1..Len(documents) :
                documents[i].embedding.d # documents[j].embedding.d
    THEN "ValueError"          \* np.array: inhomogeneous shape
    ELSE IF Len(documents) = 0
    THEN "ValueError"          \* n, d = x.shape on an array of shape (0,)
    ELSE IF documents[1].embedding.d # dimension
    THEN "AssertionError"      \* faiss: assert d == self.d
    ELSE ""

\* lines 77-82: the loop appends entries up to the first document that lacks
\* "text" or "metadata"
appended_count(documents) ==
    IF \A i \in 1..Len(documents) : {"text", "metadata"} \subseteq documents[i].keys
    THEN Len(documents)
    ELSE (CHOOSE i \in 1..Len(documents) :
              /\ ~({"text", "metadata"} \subseteq documents[i].keys)
              /\ \A j \in 1..(i - 1) : {"text", "metadata"} \subseteq documents[j].keys) - 1

entry_of(doc) == [text |-> doc.text, metadata |-> doc.metadata]

add_documents(h, documents) ==
    /\ pc[h] = "ready"
    /\ before' = [before EXCEPT ![h] = [index |-> index[h],
                                         metadata_list |-> metadata_list[h]]]
    /\ found' = [found EXCEPT ![h] = NoSearch]
    /\ LET err == add_error(documents)
           m == appended_count(documents)
       IN  IF err # ""
           THEN /\ outcome' = [outcome EXCEPT ![h] = Raised("add", err)]
                /\ UNCHANGED <<index, metadata_list, pc, saves>>
           ELSE /\ index' = [index EXCEPT ![h] = index[h] \o embeddings_of(documents)]
                /\ metadata_list' = [metadata_list EXCEPT ![h] =
                       metadata_list[h] \o [i \in 1..m |-> entry_of(documents[i])]]
                /\ IF m < Len(documents)
                   THEN /\ outcome' = [outcome EXCEPT ![h] = Raised("add", "KeyError")]
                        /\ UNCHANGED <<pc, saves>>
                   ELSE /\ outcome' = [outcome EXCEPT ![h] = Running("add")]
                        /\ pc' = [pc EXCEPT ![h] = "save_index"]
                        /\ saves' = [saves EXCEPT ![h] = 1]
    /\ saw' = [saw EXCEPT ![h] = NotSeen]
    /\ UNCHANGED <<disk, faults>>
    /\ UNCHANGED app

\* add_documents while the handle holds no more than max vectors and entries
add_documents_upto(h, documents, max) ==
    /\ Len(index[h]) + Len(documents) <= max
    /\ Len(metadata_list[h]) + Len(documents) <= max
    /\ add_documents(h, documents)

----------------------------------------------------------------------------
(* delete_collection, clear_collection *)

\* shutil.rmtree succeeds, or there is no directory
delete_collection(h) ==
    /\ pc[h] = "ready"
    /\ index_dir' = FALSE
    /\ name_file' = NoName
    /\ index_file' = Absent
    /\ metadata_file' = Absent
    /\ outcome' = [outcome EXCEPT ![h] = Ok("delete")]
    /\ before' = [before EXCEPT ![h] = NoMemory]
    /\ found' = [found EXCEPT ![h] = NoSearch]
    /\ saw' = [saw EXCEPT ![h] = NotSeen]
    /\ UNCHANGED <<pc, index, metadata_list, saves, faults>>
    /\ UNCHANGED app

\* shutil.rmtree fails part-way: some files are gone, the directory stays
delete_collection_fails(h) ==
    /\ pc[h] = "ready"
    /\ index_dir
    /\ faults < MaxFaults
    /\ faults' = faults + 1
    /\ name_file' \in {name_file, NoName}
    /\ index_file' \in {index_file, Absent}
    /\ metadata_file' \in {metadata_file, Absent}
    /\ outcome' = [outcome EXCEPT ![h] = Raised("delete", "OSError")]
    /\ before' = [before EXCEPT ![h] = NoMemory]
    /\ found' = [found EXCEPT ![h] = NoSearch]
    /\ saw' = [saw EXCEPT ![h] = NotSeen]
    /\ UNCHANGED <<index_dir, pc, index, metadata_list, saves>>
    /\ UNCHANGED app

\* lines 183-184: _create_index() saves, then _save_index() saves again
clear_collection(h) ==
    /\ pc[h] = "ready"
    /\ index' = [index EXCEPT ![h] = <<>>]
    /\ metadata_list' = [metadata_list EXCEPT ![h] = <<>>]
    /\ pc' = [pc EXCEPT ![h] = "save_index"]
    /\ saves' = [saves EXCEPT ![h] = 2]
    /\ outcome' = [outcome EXCEPT ![h] = Running("clear")]
    /\ before' = [before EXCEPT ![h] = NoMemory]
    /\ found' = [found EXCEPT ![h] = NoSearch]
    /\ saw' = [saw EXCEPT ![h] = NotSeen]
    /\ UNCHANGED <<disk, faults>>
    /\ UNCHANGED app

----------------------------------------------------------------------------
(* search *)

\* squared L2 distance of two vectors of the same length
L2sqr(x, y) == (x.v - y.v) * (x.v - y.v)

\* the distance faiss reports in an unfilled result slot
FLT_MAX == 1000000

\* faiss IndexFlatL2.search for one query: the n nearest stored vectors by
\* increasing distance, equal distances by increasing position, then slots
\* with id -1
index_search(idx, query, n) ==
    LET dist(i) == L2sqr(idx[i + 1], query)
        closer(j, i) == dist(j) < dist(i) \/ (dist(j) = dist(i) /\ j < i)
        rank(i) == Cardinality({j \in 0..(Len(idx) - 1) : closer(j, i)})
        at(r) == CHOOSE i \in 0..(Len(idx) - 1) : rank(i) = r - 1
    IN  [r \in 1..n |-> IF r <= Len(idx)
                        THEN [id |-> at(r), distance |-> dist(at(r))]
                        ELSE [id |-> -1, distance |-> FLT_MAX]]

\* initial_results_of with the slice one short
initial_results_short(indices, n_results) ==
    LET head == SubSeq(indices, 1, Min(n_results - 1, Len(indices)))
        valid(e) == e.id # -1
        kept == SelectSeq(head, valid)
    IN  [r \in 1..Len(kept) |-> kept[r].id]

\* lines 110-113
initial_results_of(indices, n_results) ==
    LET head == SubSeq(indices, 1, Min(n_results, Len(indices)))
        valid(e) == e.id # -1
        kept == SelectSeq(head, valid)
    IN  [r \in 1..Len(kept) |-> kept[r].id]

SeqRange(s) == {s[r] : r \in 1..Len(s)}

\* _get_related_chunks
get_related_chunks(ml, chunk_indices) ==
    UNION {LET m == ml[idx + 1].metadata
           IN  SeqRange(m.prev_chunks) \cup SeqRange(m.next_chunks) \cup {idx} :
           idx \in {i \in SeqRange(chunk_indices) : 0 <= i /\ i < Len(ml)}}

\* related_admitted without the membership test
related_admitted_any(idx, seen_indices, initial_results) ==
    idx \notin seen_indices

\* line 135: which related positions the second loop lets through
related_admitted(idx, seen_indices, initial_results) ==
    idx \notin seen_indices /\ idx \in SeqRange(initial_results)

\* float(distances[0][list(indices[0]).index(idx)])
distance_of(indices, idx) ==
    indices[CHOOSE r \in 1..Len(indices) :
                /\ indices[r].id = idx
                /\ \A q \in 1..(r - 1) : indices[q].id # idx].distance

result_of(ml, indices, idx) ==
    [idx |-> idx,
     text |-> ml[idx + 1].text,
     metadata |-> ml[idx + 1].metadata,
     distance |-> distance_of(indices, idx)]

\* lines 123-131: one result per initial position not seen before
RECURSIVE first_loop(_, _)
first_loop(initial_results, seen_indices) ==
    IF initial_results = <<>> THEN <<>>
    ELSE IF Head(initial_results) \in seen_indices
         THEN first_loop(Tail(initial_results), seen_indices)
         ELSE <<Head(initial_results)>>
              \o first_loop(Tail(initial_results), seen_indices \cup {Head(initial_results)})

\* a set of positions in increasing order
RECURSIVE ascending(_)
ascending(S) ==
    IF S = {} THEN <<>>
    ELSE LET m == CHOOSE x \in S : \A y \in S : x <= y
         IN  <<m>> \o ascending(S \ {m})

\* lines 134-142: the related positions that pass line 135
second_loop(related_indices, seen_indices, initial_results) ==
    ascending({idx \in related_indices :
                   related_admitted(idx, seen_indices, initial_results)})

\* the positions search returns, in order
search_positions(ml, indices, n_results) ==
    LET initial_results == initial_results_of(indices, n_results)
        related_indices == get_related_chunks(ml, initial_results)
        first == first_loop(initial_results, {})
    IN  first \o second_loop(related_indices, SeqRange(first), initial_results)

\* lines 126-128 and 137-139 for one position: self.metadata_list[idx] and
\* list(indices[0]).index(idx)
position_error(ml, indices, idx) ==
    IF idx < 0 \/ idx >= Len(ml) THEN "IndexError"
    ELSE IF \A r \in 1..Len(indices) : indices[r].id # idx THEN "ValueError"
    ELSE ""

\* what search raises; "" when it returns
search_error(idx, ml, query, n_results) ==
    IF query.d # dimension THEN "AssertionError"      \* faiss: assert d == self.d
    ELSE IF n_results * 2 <= 0 THEN "AssertionError"  \* faiss: assert k > 0
    ELSE LET indices == index_search(idx, query, n_results * 2)
             positions == search_positions(ml, indices, n_results)
             failing == {r \in 1..Len(positions) :
                            position_error(ml, indices, positions[r]) # ""}
         IN  IF failing = {} THEN ""
             ELSE position_error(ml, indices,
                      positions[CHOOSE r \in failing : \A q \in failing : r <= q])

search(h, query_embedding, n_results) ==
    /\ pc[h] = "ready"
    /\ LET err == search_error(index[h], metadata_list[h], query_embedding, n_results)
           indices == index_search(index[h], query_embedding, n_results * 2)
           positions == search_positions(metadata_list[h], indices, n_results)
       IN  IF err # ""
           THEN /\ outcome' = [outcome EXCEPT ![h] = Raised("search", err)]
                /\ found' = [found EXCEPT ![h] =
                       [query |-> query_embedding, n_results |-> n_results,
                        indices |-> <<>>, results |-> <<>>]]
           ELSE /\ outcome' = [outcome EXCEPT ![h] = Ok("search")]
                /\ found' = [found EXCEPT ![h] =
                       [query |-> query_embedding, n_results |-> n_results,
                        indices |-> indices,
                        results |-> [r \in 1..Len(positions) |->
                                        result_of(metadata_list[h], indices, positions[r])]]]
    /\ before' = [before EXCEPT ![h] = NoMemory]
    /\ saw' = [saw EXCEPT ![h] = NotSeen]
    /\ UNCHANGED <<disk, pc, index, metadata_list, saves, faults>>
    /\ UNCHANGED app

----------------------------------------------------------------------------
(* Spec: one handle at a time, every operation of the store, failing I/O *)

Next ==
    \/ VectorStore_init("h1")
    \/ load_read_index("h1")
    \/ load_read_metadata("h1")
    \/ save_write_index("h1")
    \/ save_write_index_fails("h1")
    \/ save_write_metadata("h1")
    \/ save_write_metadata_fails("h1")
    \/ \E documents \in StoreBatches : add_documents_upto("h1", documents, MaxLen)
    \/ delete_collection("h1")
    \/ delete_collection_fails("h1")
    \/ clear_collection("h1")

Spec == Init /\ [][Next]_vars

(* ConcSpec: two handles on the same collection, I/O that does not fail *)

InitNoFaults ==
    /\ index_dir = FALSE
    /\ name_file = NoName
    /\ index_file = Absent
    /\ metadata_file = Absent
    /\ pc = [h \in Handles |-> "none"]
    /\ index = [h \in Handles |-> <<>>]
    /\ metadata_list = [h \in Handles |-> <<>>]
    /\ saves = [h \in Handles |-> 0]
    /\ outcome = [h \in Handles |-> NoCall]
    /\ before = [h \in Handles |-> NoMemory]
    /\ saw = [h \in Handles |-> NotSeen]
    /\ found = [h \in Handles |-> NoSearch]
    /\ faults = MaxFaults
    /\ store = InitialStore
    /\ call = NoStoreCall

\* each handle adds a document of its own
ConcBatches(h) == IF h = "h1" THEN {<<docA>>} ELSE {<<docB>>}

NextConc ==
    \/ \E h \in Handles : VectorStore_init(h)
    \/ \E h \in Handles : load_read_index(h)
    \/ \E h \in Handles : load_read_metadata(h)
    \/ \E h \in Handles : save_write_index(h)
    \/ \E h \in Handles : save_write_index_fails(h)
    \/ \E h \in Handles : save_write_metadata(h)
    \/ \E h \in Handles : save_write_metadata_fails(h)
    \/ \E h \in Handles : delete_collection(h)
    \/ \E h \in Handles : \E documents \in ConcBatches(h) :
           add_documents_upto(h, documents, MaxConcLen)
    \/ \E h \in Handles : clear_collection(h)

ConcSpec == InitNoFaults /\ [][NextConc]_vars

(* SearchSpec: one handle adds the chunks of source files and searches *)

SearchEmbeddings == {Vec(dimension, 0), Vec(dimension, 1)}

SearchFiles == {"A"}

SearchBatches ==
    {process_document(f, embs) :
         f \in SearchFiles,
         embs \in UNION {[1..m -> SearchEmbeddings] : m \in 1..MaxChunks}}

Queries == SearchEmbeddings \cup {Vec(dimension, 3), Vec(dimension - 1, 0)}

NextSearch ==
    \/ VectorStore_init("h1")
    \/ load_read_index("h1")
    \/ load_read_metadata("h1")
    \/ save_write_index("h1")
    \/ save_write_metadata("h1")
    \/ \E documents \in SearchBatches : add_documents_upto("h1", documents, MaxLen)
    \/ \E q \in Queries, k \in 0..MaxK : search("h1", q, k)

SearchSpec == InitNoFaults /\ [][NextSearch]_vars

----------------------------------------------------------------------------
(* The store of several collections.  Here a constructor and the method    *)
(* called on the new object run without another call in between, as one    *)
(* handler of app.py runs them.                                            *)

ensure(st, p) == IF p \in DOMAIN st THEN st ELSE (p :> EmptyDir) @@ st

\* line 25: index_dir.mkdir(parents=True, exist_ok=True)
mkdir(st, p) == ensure(IF p.kind = "child" THEN ensure(st, Root) ELSE st, p)

\* how a _save_index ends: both files written, or the write of metadata.pkl
\* fails and leaves that file as it was, or partly written
Failures == {"none", "metadata_kept", "metadata_torn"}

\* _save_index on the files of one directory
save_index(d, vectors, entries, fail) ==
    [d EXCEPT !.index_file = File(vectors),
              !.metadata_file = IF fail = "none" THEN File(entries)
                                ELSE IF fail = "metadata_kept" THEN d.metadata_file
                                ELSE Unreadable]

\* VectorStore(name) on the store st: the store it leaves, whether it
\* raised, whether it saved, and the object's index and metadata list
VectorStore(st, name, fail) ==
    IF Parent \notin DOMAIN st
    THEN \* Path.cwd() raises when the working directory is gone
         [store |-> st, status |-> "raised", saved |-> FALSE,
          dir |-> Parent, index |-> <<>>, metadata_list |-> <<>>]
    ELSE LET p == index_dir_of(name)
             made == mkdir(st, p)
             d == [made[p] EXCEPT !.name_file = name_written(made[p], name)]
         IN  IF exists(d.index_file) /\ exists(d.metadata_file)
             THEN \* _load_index
                  IF d.index_file.state = "ok" /\ d.metadata_file.state = "ok"
                  THEN [store |-> [made EXCEPT ![p] = d], status |-> "ok", saved |-> FALSE,
                        dir |-> p, index |-> d.index_file.data,
                        metadata_list |-> d.metadata_file.data]
                  ELSE [store |-> [made EXCEPT ![p] = d], status |-> "raised", saved |-> FALSE,
                        dir |-> p, index |-> <<>>, metadata_list |-> <<>>]
             ELSE \* _create_index
                  [store |-> [made EXCEPT ![p] = save_index(d, <<>>, <<>>, fail)],
                   status |-> IF fail = "none" THEN "ok" ELSE "raised", saved |-> TRUE,
                   dir |-> p, index |-> <<>>, metadata_list |-> <<>>]

\* get_collection_info of an object
get_collection_info(name, vs) ==
    [name |-> name, document_count |-> Len(vs.metadata_list)]

\* app.py lines 47-53: the name list_databases takes for a directory
original_name(st, p) ==
    IF exists(st[p].name_file)
    THEN strip(st[p].name_file.data)
    ELSE get_original_db_name(p.segment)

\* Path("index").glob("*") with is_dir(): the directories in ./index
subdirectories(st) == {p \in DOMAIN st : p.kind = "child"}

\* the orders in which glob can yield the directories
RECURSIVE Orders(_)
Orders(S) ==
    IF S = {} THEN {<<>>}
    ELSE UNION {{<<p>> \o o : o \in Orders(S \ {p})} : p \in S}

\* list_databases: the loop over the directories in the order given; a
\* constructor that raises is logged and its directory skipped
RECURSIVE list_databases_from(_, _, _)
list_databases_from(st, order, dbs) ==
    IF order = <<>> THEN [store |-> st, dbs |-> dbs]
    ELSE LET name == original_name(st, Head(order))
             vs == VectorStore(st, name, "none")
         IN  list_databases_from(vs.store, Tail(order),
                 IF vs.status = "ok" THEN dbs \cup {get_collection_info(name, vs)} ELSE dbs)

\* shutil.rmtree(index_dir): the directory goes with all below it
rmtree(st, p) ==
    LET gone == IF p.kind = "child" THEN {p}
                ELSE IF p.kind = "root" THEN {Root} \cup subdirectories(st)
                ELSE DOMAIN st
    IN  [q \in DOMAIN st \ gone |-> st[q]]

(* StoreSpec: calls on a store of several collections *)

handle_vars == <<index_dir, name_file, index_file, metadata_file, pc, index,
                 metadata_list, saves, outcome, before, saw, found>>

\* collection names: empty, "..", a plain one, one with a leading space
Names == {<<>>, <<".", ".">>, <<"a">>, <<" ", "a">>}

\* what a user may leave in a name.txt edited by hand
EditedNames == {<<"a">>}

\* the directories that hold a file of a collection
collections(st) == {p \in DOMAIN st : st[p] # EmptyDir}

\* the call does not take the store beyond MaxDirs collections
room_for(name) ==
    \/ index_dir_of(name) \in collections(store)
    \/ Cardinality(collections(store)) < MaxDirs

\* a save fails only where there is a save, and MaxFaults times at most
use_fault(fail, saved) ==
    /\ fail # "none" => (saved /\ faults < MaxFaults)
    /\ faults' = IF fail = "none" THEN faults ELSE faults + 1

StoreCall(op, name, status, dbs) == [op |-> op, name |-> name, status |-> status, dbs |-> dbs]

\* VectorStore(name) on its own (app.py lines 138, 213, 238)
new_VectorStore(name) ==
    \E fail \in Failures :
        LET vs == VectorStore(store, name, fail)
        IN  /\ room_for(name)
            /\ use_fault(fail, vs.saved)
            /\ store' = vs.store
            /\ call' = StoreCall("open", name, vs.status, {})
            /\ UNCHANGED handle_vars

\* app.py list_databases
list_databases ==
    \E order \in Orders(subdirectories(store)) :
        LET listed == list_databases_from(store, order, {})
        IN  /\ store' = listed.store
            /\ call' = StoreCall("list", <<>>, "ok", listed.dbs)
            /\ UNCHANGED <<handle_vars, faults>>

\* app.py create_database with the form submitted
create_database(db_name) ==
    /\ db_name # <<>>
    /\ room_for(db_name)
    /\ \E order \in Orders(subdirectories(store)) :
           LET existing_dbs == list_databases_from(store, order, {})
           IN  IF \E db \in existing_dbs.dbs : db.name = db_name
               THEN /\ store' = existing_dbs.store
                    /\ call' = StoreCall("create", db_name, "refused", existing_dbs.dbs)
                    /\ UNCHANGED faults
               ELSE \E fail \in Failures :
                        LET vs == VectorStore(existing_dbs.store, db_name, fail)
                        IN  /\ use_fault(fail, vs.saved)
                            /\ store' = vs.store
                            /\ call' = StoreCall("create", db_name,
                                           IF vs.status = "ok" THEN "created" ELSE "failed",
                                           existing_dbs.dbs)
    /\ UNCHANGED handle_vars

\* app.py lines 212-214: VectorStore(name), then add_documents of one chunk
upload(name) ==
    \E fail \in Failures :
        LET vs == VectorStore(store, name, "none")
            vectors == vs.index \o embeddings_of(<<docA>>)
            entries == vs.metadata_list \o <<entry_of(docA)>>
        IN  /\ room_for(name)
            /\ Len(vs.index) < MaxStored
            /\ Len(vs.metadata_list) < MaxStored
            /\ use_fault(fail, vs.status = "ok")
            /\ store' = IF vs.status = "ok"
                        THEN [vs.store EXCEPT ![vs.dir] = save_index(@, vectors, entries, fail)]
                        ELSE vs.store
            /\ call' = StoreCall("add", name,
                                 IF vs.status = "ok" /\ fail = "none" THEN "ok" ELSE "raised", {})
            /\ UNCHANGED handle_vars

\* app.py lines 218-221: VectorStore(name), then delete_collection
delete_database(name) ==
    LET vs == VectorStore(store, name, "none")
    IN  /\ room_for(name)
        /\ store' = IF vs.status = "ok" THEN rmtree(vs.store, vs.dir) ELSE vs.store
        /\ call' = StoreCall("delete", name, vs.status, {})
        /\ UNCHANGED <<handle_vars, faults>>

\* VectorStore(name), then clear_collection
clear_database(name) ==
    LET vs == VectorStore(store, name, "none")
    IN  /\ room_for(name)
        /\ store' = IF vs.status = "ok"
                    THEN [vs.store EXCEPT ![vs.dir] = save_index(@, <<>>, <<>>, "none")]
                    ELSE vs.store
        /\ call' = StoreCall("clear", name, vs.status, {})
        /\ UNCHANGED <<handle_vars, faults>>

\* a user rewrites or removes the name.txt of a collection directory
edit_name_file(p, content) ==
    /\ p \in subdirectories(store)
    /\ exists(store[p].name_file)
    /\ store' = [store EXCEPT ![p].name_file = content]
    /\ call' = StoreCall("edit", p.segment, "ok", {})
    /\ UNCHANGED <<handle_vars, faults>>

NextStore ==
    \/ \E name \in Names : new_VectorStore(name)
    \/ list_databases
    \/ \E db_name \in Names : create_database(db_name)
    \/ \E name \in Names : upload(name)
    \/ \E name \in Names : delete_database(name)
    \/ \E name \in Names : clear_database(name)
    \/ \E p \in DOMAIN store, content \in {Absent} \cup {File(n) : n \in EditedNames} :
           edit_name_file(p, content)

StoreSpec == Init /\ [][NextStore]_vars

----------------------------------------------------------------------------
(* Properties *)

Quiescent == \A h \in Handles : pc[h] \in {"none", "ready"}

\* the entry at a position is the one its vector was added with
inserted_together(vec, entry) ==
    \E doc \in {docA, docB, docLong, docNoText} :
        doc.embedding = vec /\ entry_of(doc) = entry

corresponds(vectors, entries) ==
    /\ Len(vectors) = Len(entries)
    /\ \A i \in 1..Len(vectors) : inserted_together(vectors[i], entries[i])

\* C1: between calls, every handle's index and metadata list have the same
\* length and position i of the metadata list is the entry added together
\* with vector i, also after add calls that failed part-way.
C1_PositionalCorrespondence ==
    \A h \in Handles : pc[h] = "ready" => corresponds(index[h], metadata_list[h])

\* C2: whenever no save is in progress, also after a save that failed between
\* its two writes, the two persisted files hold the same number of entries.
C2_SaveAtomic ==
    (Quiescent /\ index_file.state = "ok" /\ metadata_file.state = "ok")
        => Len(index_file.data) = Len(metadata_file.data)

\* C3: when add_documents raised because the save failed, the handle's index
\* and metadata list are what they were when add_documents was called.
C3_RollbackOnFailedSave ==
    \A h \in Handles :
        outcome[h] = Raised("add", "WriteError")
            => /\ index[h] = before[h].index
               /\ metadata_list[h] = before[h].metadata_list

\* C4: the constructor returns an object only if it found both files or
\* neither, and what it loaded has as many vectors as metadata entries.
C4_CorruptCollectionRefused ==
    \A h \in Handles :
        outcome[h] = Ok("init")
            => /\ saw[h].index = saw[h].metadata
               /\ Len(index[h]) = Len(metadata_list[h])

\* C5: while a constructor that found exactly one of the two files runs, no
\* step changes an existing index or metadata file.
C5_CorruptNotRepaired ==
    [][(\E h \in Handles : outcome[h] = Running("init") /\ saw[h].index # saw[h].metadata)
          => /\ exists(index_file) => index_file' = index_file
             /\ exists(metadata_file) => metadata_file' = metadata_file]_vars

\* C6: with two handles writing and no I/O failure, whenever no method is
\* running the persisted index and metadata have the same length and agree
\* position by position.
C6_SingleWriterKeepsCorrespondence ==
    (Quiescent /\ index_file.state = "ok" /\ metadata_file.state = "ok")
        => corresponds(index_file.data, metadata_file.data)

returned_positions(h) == [r \in 1..Len(found[h].results) |-> found[h].results[r].idx]

slot_of(indices, p) == CHOOSE r \in 1..Len(indices) : indices[r].id = p

C8_EmptyCollectionRaises ==
    \A h \in Handles :
        (outcome[h].op = "search" /\ Len(index[h]) = 0) => outcome[h].status = "raised"

DimMismatch(documents) ==
    /\ \A i \in 1..Len(documents) : "embedding" \in documents[i].keys
    /\ \E i \in 1..Len(documents) : documents[i].embedding.d # dimension

MismatchedBatches == {documents \in StoreBatches : DimMismatch(documents)}

same_embedding(h) == {p \in 0..(Len(index[h]) - 1) : index[h][p + 1] = found[h].query}

returned_at_zero(h, p) ==
    \E r \in 1..Len(found[h].results) :
        found[h].results[r].idx = p /\ found[h].results[r].distance = 0

\* C10 as claimed: a search with the embedding of a stored chunk returns
\* that chunk with distance 0.
C10_RoundTripEveryChunk ==
    \A h \in Handles :
        outcome[h] = Ok("search") => \A p \in same_embedding(h) : returned_at_zero(h, p)

\* C10 amended: a search with the embedding of a stored chunk returns that
\* chunk with distance 0 when at most n_results stored chunks have that
\* embedding.
C10_RoundTripWithinK ==
    \A h \in Handles :
        (outcome[h] = Ok("search") /\ Cardinality(same_embedding(h)) <= found[h].n_results)
            => \A p \in same_embedding(h) : returned_at_zero(h, p)

\* C10 witness: more chunks than n_results, two of them with the embedding
\* searched for.
C10_Witness ==
    \E h \in Handles :
        /\ outcome[h] = Ok("search")
        /\ Len(index[h]) > found[h].n_results
        /\ Cardinality(same_embedding(h)) = 2
        /\ found[h].n_results = 2

\* a document is in the persisted collection: its vector is in index.faiss
\* and its entry in metadata.pkl
persisted(doc) ==
    /\ index_file.state = "ok"
    /\ metadata_file.state = "ok"
    /\ doc.embedding \in SeqRange(index_file.data)
    /\ entry_of(doc) \in SeqRange(metadata_file.data)

\* the handle whose method takes this step
steps(h) == pc'[h] # pc[h] \/ outcome'[h] # outcome[h]

\* C17: a document that a completed add_documents persisted leaves the
\* persisted collection only by a step of clear_collection or
\* delete_collection, whatever the other handle of the collection does.
C17_AddDurable ==
    [][\A doc \in {docA, docB} :
           (persisted(doc) /\ ~persisted(doc)')
               => \E h \in Handles : steps(h) /\ outcome'[h].op \in {"clear", "delete"}]_vars

\* the constructor of handle h found neither file (the collection was never
\* created, or was deleted) and h has made no call since
created_anew(h) ==
    /\ outcome[h] = Ok("init")
    /\ ~saw[h].index
    /\ ~saw[h].metadata

\* C11: after a collection was deleted and created again under the same
\* name, no chunk added before the delete is in the persisted collection.
\* The documents of ConcBatches(h) are added by h only, so while h has made
\* no call since it created the collection anew, every one of them was added
\* before the delete.
C11_DeletedChunksStayGone ==
    \A h \in Handles :
        created_anew(h) => \A documents \in ConcBatches(h) : ~persisted(documents[1])

----------------------------------------------------------------------------
(* analyze_collection *)

\* sorted(x) of Python for a list of numbers
sorted(x) ==
    LET earlier(j, i) == x[j] < x[i] \/ (x[j] = x[i] /\ j < i)
        rank(i) == Cardinality({j \in 1..Len(x) : earlier(j, i)})
    IN  [r \in 1..Len(x) |-> x[CHOOSE i \in 1..Len(x) : rank(i) = r - 1]]

RECURSIVE sum(_)
sum(x) == IF x = <<>> THEN 0 ELSE Head(x) + sum(Tail(x))

\* lines 229-244: the statistics of one list of numbers; the mean is the
\* fraction mean_num / mean_den
distribution(x) ==
    IF x = <<>>
    THEN [min |-> 0, max |-> 0, mean_num |-> 0, mean_den |-> 1, median |-> 0, values |-> x]
    ELSE [min |-> sorted(x)[1],
          max |-> sorted(x)[Len(x)],
          mean_num |-> sum(x),
          mean_den |-> Len(x),
          median |-> sorted(x)[(Len(x) \div 2) + 1],
          values |-> x]

\* lines 198-211: file_stats[file_name]["chunk_count"] after the loop
file_stats(ml) ==
    [f \in {ml[i].metadata.file_name : i \in 1..Len(ml)} |->
        Cardinality({i \in 1..Len(ml) : ml[i].metadata.file_name = f})]

\* lines 209-211: for every entry, in order, the count its file has reached
\* when the entry is visited
file_chunk_counts(ml) ==
    [i \in 1..Len(ml) |->
        Cardinality({j \in 1..i : ml[j].metadata.file_name = ml[i].metadata.file_name})]

analyze_collection(ml) ==
    [total_chunks |-> Len(ml),
     total_files |-> Cardinality(DOMAIN file_stats(ml)),
     file_stats |-> file_stats(ml),
     file_chunk_counts |-> distribution(file_chunk_counts(ml))]

\* the final chunk count of every distinct file, files in the order of their
\* first entry
per_file_counts(ml) ==
    LET first == SelectSeq([i \in 1..Len(ml) |-> i],
                           LAMBDA i : \A j \in 1..(i - 1) :
                               ml[j].metadata.file_name # ml[i].metadata.file_name)
    IN  [r \in 1..Len(first) |-> file_stats(ml)[ml[first[r]].metadata.file_name]]

\* C16: what analyze_collection returns as file_chunk_counts is the
\* distribution of the per-file chunk counts: one value per distinct file,
\* that file's final chunk count, with min, max, mean and median over them.
C16_PerFileDistribution ==
    \A h \in Handles :
        pc[h] = "ready"
            => analyze_collection(metadata_list[h]).file_chunk_counts
                   = distribution(per_file_counts(metadata_list[h]))

----------------------------------------------------------------------------
(* Properties of the store of several collections *)

\* names for the statements about the encoding alone
AllNames ==
    Names \cup {<<".">>, <<"/">>, <<"a", "/", "a">>, <<"a", " ">>, <<"a", " ", "a">>,
                <<"U+00E9">>, <<"%", "2", "F">>, <<"%">>}

\* C13: a constructor that returned has its collection directory as a direct
\* child of ./index, and no other name has the same directory.
C13_InjectiveSafeSegment ==
    (call.op = "open" /\ call.status = "ok")
        => /\ index_dir_of(call.name) \in subdirectories(store)
           /\ \A name \in AllNames \ {call.name} :
                  index_dir_of(name) # index_dir_of(call.name)

\* the directory p holds a collection as VectorStore(name) leaves it
created_as(p, name) ==
    /\ p \in subdirectories(store)
    /\ p = index_dir_of(name)
    /\ store[p].name_file = File(name)
    /\ store[p].index_file.state = "ok"
    /\ store[p].metadata_file.state = "ok"

\* C14: after a listing, every collection that VectorStore(n) created in a
\* directory of ./index is listed under exactly n, with its stored chunks,
\* and the name the listing takes for its directory leads back to it.
C14_NamesRoundTrip ==
    call.op = "list"
        => \A name \in AllNames :
               created_as(index_dir_of(name), name)
                   => /\ original_name(store, index_dir_of(name)) = name
                      /\ [name |-> name,
                          document_count |-> Len(store[index_dir_of(name)].metadata_file.data)]
                             \in call.dbs

\* C18: list_databases leaves ./index with the directories and the files it
\* had before the call.
C18_ListingReadOnly ==
    [][call'.op = "list"
          => /\ DOMAIN store' = DOMAIN store
             /\ \A p \in DOMAIN store :
                    /\ exists(store'[p].name_file) = exists(store[p].name_file)
                    /\ exists(store'[p].index_file) = exists(store[p].index_file)
                    /\ exists(store'[p].metadata_file) = exists(store[p].metadata_file)]_vars

\* C15: create_database under a name whose directory holds a collection is
\* refused and leaves that directory's three files as they were, also when
\* the files cannot be loaded.
C15_DuplicateRefused ==
    [][(/\ call'.op = "create"
        /\ call' # call
        /\ index_dir_of(call'.name) \in collections(store))
          => /\ call'.status = "refused"
             /\ index_dir_of(call'.name) \in DOMAIN store'
             /\ store'[index_dir_of(call'.name)] = store[index_dir_of(call'.name)]]_vars

\* C12: a name.txt that exists keeps its content in every step but those of
\* a delete and of a user's own edit.
C12_NameFileKept ==
    [][\A p \in DOMAIN store :
           (exists(store[p].name_file) /\ call'.op \notin {"delete", "edit"})
               => /\ p \in DOMAIN store'
                  /\ store'[p].name_file = store[p].name_file]_vars

\* C12 witness: a collection whose name.txt a user rewrote was opened under
\* the name of its directory, for an upload or a clear as well, and still
\* holds the user's text.
C12_Witness ==
    /\ call.op \in {"open", "add", "clear"}
    /\ call.status = "ok"
    /\ call.name = <<" ", "a">>
    /\ index_dir_of(call.name) \in DOMAIN store
    /\ store[index_dir_of(call.name)].name_file = File(<<"a">>)

====
